---- MODULE Spec2Model ----
(***************************************************************************)
(* A model of bevy_observer_pattern (src/src/lib.rs): the ObserverList     *)
(* registry, the ObserverBuildCommand (set_observer), the change pass      *)
(* recieve_subject_event and ObserverList::map_entities, run inside a      *)
(* Bevy App whose stages are the CoreStage sequence.                       *)
(***************************************************************************)
EXTENDS Integers, Sequences, FiniteSets, Bags, TLC

\* ---------------------------------------------------------------- bounds
NumEntities == 3     \* entities of the world
MaxSubjects == 2     \* longest `subjects` Vec handed to set_observer
MaxQueue    == 2     \* commands the systems of one stage queue
MaxOps      == 2     \* mutations, remaps and set_observer calls of one run

Entity == 1..NumEntities

\* ------------------------------------------------------------- Option<T>
None      == {}
Some(x)   == {x}
Unwrap(o) == CHOOSE x \in o : TRUE

\* ------------------------------------------------- the test's components
\* TestSubject { a: String, b: u32 }, the two values the tests use
Hello    == [a |-> "Hello World!", b |-> 42]
Farewell == [a |-> "Farewell World!", b |-> 12]
TestSubject == {Hello, Farewell}

\* TestObserver::default(): { a: None, b: None }
TestObserverDefault == [a |-> None, b |-> None]

\* the (T, S, O) triples the tests register:
\* "String" is (String, TestSubject, TestObserver),
\* "Self"   is (TestSubject, TestSubject, TestObserver)
Triples == {"String", "Self"}

\* Subject<T>::give_data: the projection to field a, or the component itself
give_data(t, self) == IF t = "String" THEN self.a ELSE self

\* Observer<T>::receive_data of TestObserver
receive_data(t, self, data) ==
    IF t = "String" THEN [self EXCEPT !.a = Some(data)]
    ELSE [a |-> Some(data.a), b |-> Some(data.b)]

\* ------------------------------------------------- ObserverList.observers
\* The HashSet<Entity> is held as a bag, so that the number of times an
\* entity is stored is something the model can count.
Elements(observers) == BagToSet(observers)

\* insert as a Vec::push would do it: a second copy of an entity already held
insert_push(observers, e) == observers (+) SetToBag({e})

\* HashSet::insert
insert(observers, e) ==
    IF BagIn(e, observers) THEN observers ELSE observers (+) SetToBag({e})

RECURSIVE collect(_)
\* list.into_iter().collect() into a HashSet
collect(list) ==
    IF list = <<>> THEN EmptyBag
    ELSE insert(collect(Tail(list)), Head(list))

\* ObserverList::new
new(list) == collect(list)

\* retain with the removal forgotten
retain_all(observers, remove_list) == observers

\* HashSet::retain(|x| !remove_list.contains(x))
retain(observers, remove_list) ==
    LET keep == {x \in Elements(observers) :
                    \A i \in 1..Len(remove_list) : remove_list[i] # x}
    IN [x \in keep |-> observers[x]]

\* iter(): every stored entity, in the order `order` lists the entities
RECURSIVE iter(_, _)
iter(observers, order) ==
    IF order = <<>> THEN <<>>
    ELSE LET e == Head(order)
             n == IF BagIn(e, observers) THEN CopiesIn(e, observers) ELSE 0
         IN [i \in 1..n |-> e] \o iter(observers, Tail(order))

\* the orders a HashSet or a query may iterate in
Orders == {f \in [1..NumEntities -> Entity] :
              \A i, j \in 1..NumEntities : f[i] = f[j] => i = j}

\* EntityMap: a partial map old id -> new id
EntityMaps == UNION {[D -> Entity] : D \in SUBSET Entity}


\* ------------------------------------------------------------ the state
VARIABLES
    alive,       \* the entities that exist (a despawned id is never reused)
    subject,     \* [Entity -> Option<TestSubject>]: the S component
    observer,    \* [Entity -> Option<TestObserver>]: the O component
    lists,       \* [Triples -> [Entity -> Option<ObserverList.observers>]]
    changed,     \* [Triples -> SUBSET Entity]: S changed since the triple's pass last ran
    queue,       \* commands the systems of the running stage have queued
    stage,       \* 0 outside app.update(), else the index of the running CoreStage
    flushing,    \* the running stage's systems are done, its commands are being applied
    ran,         \* the triples whose pass has run in this tick
    mutated,     \* subjects mutated by systems during this tick
    calls,       \* receive_data calls of the last operation (of the whole tick, inside one)
    pruned,      \* entries removed from a registry, likewise
    last,        \* the last operation and its outcome
    panicked,    \* a handler has panicked
    registered,  \* the triples register_observer was called for
    nops         \* the work done so far

vars == <<alive, subject, observer, lists, changed, queue, stage, flushing, ran,
          mutated, calls, pruned, last, panicked, registered, nops>>

\* App::update runs the stages in this order (of CoreStage, the two stages in
\* which something of this model runs)
CoreStage == <<"Update", "PostUpdate">>

\* the pass added with add_system: it would run among the Update systems
PassStage_Update == "Update"

\* register_observer: add_system_to_stage(CoreStage::PostUpdate, ...)
PassStage == "PostUpdate"

\* the part of the state the handlers read and write
World == [alive |-> alive, subject |-> subject, observer |-> observer,
          lists |-> lists, changed |-> changed, calls |-> calls,
          pruned |-> pruned, panicked |-> panicked]

Commit(w) ==
    /\ alive' = w.alive
    /\ subject' = w.subject
    /\ observer' = w.observer
    /\ lists' = w.lists
    /\ changed' = w.changed
    /\ calls' = w.calls
    /\ pruned' = w.pruned
    /\ panicked' = w.panicked

\* an operation run outside app.update() starts a log of its own
Fresh(w) == IF stage = 0 THEN [w EXCEPT !.calls = <<>>, !.pruned = {}] ELSE w

\* --------------------------------------------------------- host queries
\* Query<&mut O>::get_mut(entity)
observer_query_get_mut(w, e) ==
    IF e \notin w.alive THEN "NoSuchEntity"
    ELSE IF w.observer[e] = None THEN "QueryDoesNotMatch"
    ELSE "Ok"

\* Query<(Entity, &S)>::get(entity) is Ok
subject_query_get(w, e) == e \in w.alive /\ w.subject[e] # None

\* the query without its Changed<S> filter
observer_list_query_unfiltered(w, t, e) ==
    /\ e \in w.alive
    /\ w.subject[e] # None
    /\ w.lists[t][e] # None

\* Query<(Entity, &S, &mut ObserverList<T, S, O>), Changed<S>> yields e
observer_list_query(w, t, e) ==
    /\ e \in w.alive
    /\ w.subject[e] # None
    /\ w.lists[t][e] # None
    /\ e \in w.changed[t]

\* observer.receive_data(data, &asset_server, sender), and its record in the log
deliver(w, by, t, sender, e, data) ==
    [w EXCEPT !.observer[e] = Some(receive_data(t, Unwrap(@), data)),
              !.calls = Append(@, [by |-> by, t |-> t, sender |-> sender,
                                   observer |-> e, data |-> data])]

\* ------------------------------------------- ObserverBuildCommand::write
RECURSIVE write_register_replace(_, _, _, _)
\* the first loop inserting a new ObserverList whether or not one is there
write_register_replace(w, t, obs, subjects) ==
    IF subjects = <<>> THEN w
    ELSE LET source == Head(subjects) IN
         IF source \notin w.alive THEN [w EXCEPT !.panicked = TRUE]
         ELSE write_register_replace(
                [w EXCEPT !.lists[t][source] = Some(new(<<obs>>))],
                t, obs, Tail(subjects))

RECURSIVE write_register_shared(_, _, _, _)
\* the first loop with one registry type for all triples: the ObserverList
\* without its type parameters
write_register_shared(w, t, obs, subjects) ==
    IF subjects = <<>> THEN w
    ELSE LET source == Head(subjects) IN
         IF source \notin w.alive THEN [w EXCEPT !.panicked = TRUE]
         ELSE write_register_shared(
                [w EXCEPT !.lists = [u \in Triples |-> [@[u] EXCEPT ![source] =
                    IF @ = None THEN Some(new(<<obs>>))
                    ELSE Some(insert(Unwrap(@), obs))]]],
                t, obs, Tail(subjects))

RECURSIVE write_register(_, _, _, _)
\* the first loop: world.entity(source) panics when source does not exist
write_register(w, t, obs, subjects) ==
    IF subjects = <<>> THEN w
    ELSE LET source == Head(subjects) IN
         IF source \notin w.alive THEN [w EXCEPT !.panicked = TRUE]
         ELSE write_register(
                [w EXCEPT !.lists[t][source] =
                    IF @ = None THEN Some(new(<<obs>>))
                    ELSE Some(insert(Unwrap(@), obs))],
                t, obs, Tail(subjects))

RECURSIVE write_push_rev(_, _, _, _)
\* the second loop going through the subjects from the last to the first
write_push_rev(w, t, obs, subjects) ==
    IF subjects = <<>> THEN w
    ELSE LET source == subjects[Len(subjects)]
             w1 == IF subject_query_get(w, source)
                   THEN deliver(w, "write", t, source, obs,
                                give_data(t, Unwrap(w.subject[source])))
                   ELSE w
         IN write_push_rev(w1, t, obs, SubSeq(subjects, 1, Len(subjects) - 1))

RECURSIVE write_push(_, _, _, _)
\* the second loop, run when observer_query.get_mut(self.observer) is Ok
write_push(w, t, obs, subjects) ==
    IF subjects = <<>> THEN w
    ELSE LET source == Head(subjects)
             w1 == IF subject_query_get(w, source)
                   THEN deliver(w, "write", t, source, obs,
                                give_data(t, Unwrap(w.subject[source])))
                   ELSE w
         IN write_push(w1, t, obs, Tail(subjects))

\* write without its second loop: registration only
write_no_push(w, t, obs, subjects) == write_register(w, t, obs, subjects)

\* write that looks for the observer's O first and gives up without it
write_checked(w, t, obs, subjects) ==
    IF observer_query_get_mut(w, obs) = "Ok"
    THEN LET w1 == write_register(w, t, obs, subjects) IN
         IF w1.panicked THEN w1 ELSE write_push(w1, t, obs, subjects)
    ELSE w

write(w, t, obs, subjects) ==
    LET w1 == write_register(w, t, obs, subjects) IN
    IF w1.panicked THEN w1
    ELSE IF observer_query_get_mut(w1, obs) = "Ok"
         THEN write_push(w1, t, obs, subjects)
         ELSE w1

\* ------------------------------------------------- recieve_subject_event
RECURSIVE deliver_all_break(_, _, _, _, _)
\* the inner loop leaving at the first entity whose query fails
deliver_all_break(w, t, subj, data, seq) ==
    IF seq = <<>> THEN w
    ELSE IF observer_query_get_mut(w, Head(seq)) = "Ok"
         THEN deliver_all_break(deliver(w, "pass", t, subj, Head(seq), data),
                                t, subj, data, Tail(seq))
         ELSE w

\* observer e has been called by the pass of triple t already
called(w, t, e) ==
    \E i \in 1..Len(w.calls) :
       w.calls[i].by = "pass" /\ w.calls[i].t = t /\ w.calls[i].observer = e

RECURSIVE deliver_all_once(_, _, _, _, _)
\* the inner loop calling an observer once per pass, for the first of its subjects
deliver_all_once(w, t, subj, data, seq) ==
    IF seq = <<>> THEN w
    ELSE LET w1 == IF observer_query_get_mut(w, Head(seq)) = "Ok" /\ ~called(w, t, Head(seq))
                   THEN deliver(w, "pass", t, subj, Head(seq), data)
                   ELSE w
         IN deliver_all_once(w1, t, subj, data, Tail(seq))

RECURSIVE deliver_all(_, _, _, _, _)
\* the inner loop's Ok arm, over the entities the set iterates
deliver_all(w, t, subj, data, seq) ==
    IF seq = <<>> THEN w
    ELSE LET w1 == IF observer_query_get_mut(w, Head(seq)) = "Ok"
                   THEN deliver(w, "pass", t, subj, Head(seq), data)
                   ELSE w
         IN deliver_all(w1, t, subj, data, Tail(seq))

\* remove_list fed by every failed query, not by NoSuchEntity alone
remove_list_any_error(w, seq) ==
    SelectSeq(seq, LAMBDA e : observer_query_get_mut(w, e) # "Ok")

\* the inner loop's NoSuchEntity arm: what is pushed on remove_list
remove_list(w, seq) ==
    SelectSeq(seq, LAMBDA e : observer_query_get_mut(w, e) = "NoSuchEntity")

\* the body of the outer loop for one changed subject. The calls of one subject
\* go to different observer components and write nothing else, so the order in
\* which the set yields them changes no component: the log lists them by id.
for_subject(w, t, subj) ==
    LET data == give_data(t, Unwrap(w.subject[subj]))
        observers == Unwrap(w.lists[t][subj])
        seq == iter(observers, [i \in 1..NumEntities |-> i])
        w1 == deliver_all(w, t, subj, data, seq)
        kept == retain(observers, remove_list(w, seq))
    IN [w1 EXCEPT !.lists[t][subj] = Some(kept),
                  !.pruned = @ \cup {[t |-> t, subject |-> subj, observer |-> e] :
                                       e \in Elements(observers) \ Elements(kept)}]

\* the outer loop leaving after the first changed subject
for_subjects_first(w, t, subjs) ==
    IF subjs = <<>> THEN w ELSE for_subject(w, t, Head(subjs))

RECURSIVE for_subjects(_, _, _)
for_subjects(w, t, subjs) ==
    IF subjs = <<>> THEN w
    ELSE for_subjects(for_subject(w, t, Head(subjs)), t, Tail(subjs))

\* the system: the changed subjects in the order the query yields them; when it
\* returns, every change made so far counts as seen by this triple's system
recieve_subject_event(w, t, subjOrder) ==
    LET subjs == SelectSeq(subjOrder, LAMBDA e : observer_list_query(w, t, e))
    IN [for_subjects(w, t, subjs) EXCEPT !.changed[t] = {}]

\* ----------------------------------------------------------- map_entities
RECURSIVE insert_all(_, _)
insert_all(set, es) ==
    IF es = {} THEN set
    ELSE LET e == CHOOSE x \in es : TRUE
         IN insert_all(insert(set, e), es \ {e})

\* map_entities inserting the images into the old set instead of a new one
map_entities_extend(observers, m) ==
    IF \E receiver \in Elements(observers) : receiver \notin DOMAIN m
    THEN [result |-> "panic", observers |-> observers]
    ELSE [result |-> "Ok",
          observers |-> insert_all(observers, {m[receiver] : receiver \in Elements(observers)})]

\* m.get(*receiver).unwrap() panics on an identifier the map lacks; the new
\* set is stored only after the loop
map_entities(observers, m) ==
    IF \E receiver \in Elements(observers) : receiver \notin DOMAIN m
    THEN [result |-> "panic", observers |-> observers]
    ELSE [result |-> "Ok",
          observers |-> insert_all(EmptyBag, {m[receiver] : receiver \in Elements(observers)})]

\* --------------------------------------------------------- host operations
\* a despawn that also takes the entity out of every registry that holds it
despawn_eager(w, e) ==
    [w EXCEPT !.alive = @ \ {e},
              !.subject[e] = None,
              !.observer[e] = None,
              !.lists = [t \in Triples |-> [g \in Entity |->
                            IF g = e \/ @[t][g] = None THEN None
                            ELSE Some(retain(Unwrap(@[t][g]), <<e>>))]],
              !.changed = [t \in Triples |-> @[t] \ {e}]]

\* World::despawn / the Despawn command: the entity and its components go
despawn(w, e) ==
    [w EXCEPT !.alive = @ \ {e},
              !.subject[e] = None,
              !.observer[e] = None,
              !.lists = [t \in Triples |-> [@[t] EXCEPT ![e] = None]],
              !.changed = [t \in Triples |-> @[t] \ {e}]]

\* a mutable access to the S component marks it changed for every system
mutate(w, e, v) ==
    [w EXCEPT !.subject[e] = Some(v),
              !.changed = [t \in Triples |-> @[t] \cup {e}]]


\* the `sources` a caller may hand to set_observer
SubjectVecs == UNION {[1..n -> Entity] : n \in 1..MaxSubjects}

\* ------------------------------------------------------------------ Init
\* The worlds the tests build, with one entity more: entity 1 is the subject g
\* (TestSubject "Hello World!", 42), the last entity is the observer r
\* (TestObserver::default()), and each entity between them is a subject like g
\* or an observer like r.
Scenes == {k \in [Entity -> {"subject", "observer"}] :
              k[1] = "subject" /\ k[NumEntities] = "observer"}

\* App::new() with one of the tests' triples registered, and one of the
\* scenes spawned. A freshly inserted component counts as changed for a
\* system that has not run yet.
Init ==
    /\ registered \in {{t} : t \in Triples}
    /\ alive = Entity
    /\ \E k \in Scenes :
          /\ subject = [e \in Entity |-> IF k[e] = "subject" THEN Some(Hello) ELSE None]
          /\ observer = [e \in Entity |->
                            IF k[e] = "observer" THEN Some(TestObserverDefault) ELSE None]
    /\ lists = [t \in Triples |-> [e \in Entity |-> None]]
    /\ changed = [t \in Triples |-> {e \in Entity : subject[e] # None}]
    /\ queue = <<>>
    /\ stage = 0
    /\ flushing = FALSE
    /\ ran = {}
    /\ mutated = {}
    /\ calls = <<>>
    /\ pruned = {}
    /\ last = [op |-> "init"]
    /\ panicked = FALSE
    /\ nops = 0

InStage(name) == stage > 0 /\ CoreStage[stage] = name /\ ~flushing

\* --------------------------------------------- operations on the world
\* world.get_mut::<TestSubject>(e) outside app.update()
Mutate(e, v) ==
    /\ ~panicked /\ stage = 0 /\ nops < MaxOps
    /\ subject_query_get(World, e)
    /\ Commit(mutate(Fresh(World), e, v))
    /\ last' = [op |-> "mutate", entity |-> e]
    /\ nops' = nops + 1
    /\ UNCHANGED <<queue, stage, flushing, ran, mutated, registered>>

\* world.despawn(e) outside app.update()
Despawn(e) ==
    /\ ~panicked /\ stage = 0
    /\ e \in alive
    /\ Commit(despawn(Fresh(World), e))
    /\ last' = [op |-> "despawn", entity |-> e]
    /\ UNCHANGED <<queue, stage, flushing, ran, mutated, registered, nops>>

\* EntityMut::set_observer: builds the command and calls write(world) at once
SetObserverEntityMut(t, obs, sources) ==
    /\ ~panicked /\ stage = 0 /\ nops < MaxOps
    /\ obs \in alive
    /\ Commit(write(Fresh(World), t, obs, sources))
    /\ last' = [op |-> "write", t |-> t, observer |-> obs, subjects |-> sources,
                deferred |-> FALSE]
    /\ nops' = nops + 1
    /\ UNCHANGED <<queue, stage, flushing, ran, mutated, registered>>

\* ObserverList::map_entities on the registry of entity e, as a scene
\* instantiation calls it
MapEntities(t, e, m) ==
    /\ ~panicked /\ stage = 0 /\ nops < MaxOps
    /\ e \in alive /\ lists[t][e] # None
    /\ LET before == Unwrap(lists[t][e])
           r == map_entities(before, m)
       IN /\ lists' = [lists EXCEPT ![t][e] = Some(r.observers)]
          /\ panicked' = (r.result = "panic")
          /\ last' = [op |-> "map_entities", t |-> t, entity |-> e,
                      before |-> before,
                      m |-> [x \in DOMAIN m \cap Elements(before) |-> m[x]],
                      result |-> r.result]
    /\ calls' = <<>>
    /\ pruned' = {}
    /\ nops' = nops + 1
    /\ UNCHANGED <<alive, subject, observer, changed, queue, stage, flushing, ran,
                   mutated, registered>>

\* ------------------------------------------------------------- the tick
\* app.update() starts: the first stage runs
AppUpdate ==
    /\ ~panicked /\ stage = 0
    /\ stage' = 1
    /\ calls' = <<>>
    /\ pruned' = {}
    /\ mutated' = {}
    /\ ran' = {}
    /\ last' = [op |-> "update"]
    /\ UNCHANGED <<alive, subject, observer, lists, changed, queue, flushing,
                   panicked, registered, nops>>

\* a system like the tests' mutate_data, added with add_system: it runs in the
\* Update stage. A mutation and the queueing of a command touch different
\* things, so a stage's systems are taken in one order: mutations first.
mutate_data(e, v) ==
    /\ ~panicked /\ nops < MaxOps
    /\ InStage("Update")
    /\ queue = <<>>
    /\ subject_query_get(World, e)
    /\ Commit(mutate(World, e, v))
    /\ mutated' = mutated \cup {e}
    /\ last' = [op |-> "system"]
    /\ nops' = nops + 1
    /\ UNCHANGED <<queue, stage, flushing, ran, registered>>

\* EntityCommands::set_observer running the command where it is called
SetObserverEntityCommands_inline(t, obs, sources) ==
    /\ ~panicked /\ nops < MaxOps
    /\ InStage("Update")
    /\ Len(queue) < MaxQueue
    /\ obs \in alive
    /\ Commit(write(World, t, obs, sources))
    /\ last' = [op |-> "system"]
    /\ nops' = nops + 1
    /\ UNCHANGED <<queue, stage, flushing, ran, mutated, registered>>

\* EntityCommands::set_observer in a system: the command is only queued
SetObserverEntityCommands(t, obs, sources) ==
    /\ ~panicked /\ nops < MaxOps
    /\ InStage("Update")
    /\ Len(queue) < MaxQueue
    /\ obs \in alive
    /\ queue' = Append(queue, [cmd |-> "ObserverBuildCommand", t |-> t,
                               observer |-> obs, subjects |-> sources])
    /\ last' = [op |-> "system"]
    /\ nops' = nops + 1
    /\ UNCHANGED <<alive, subject, observer, lists, changed, stage, flushing, ran,
                   mutated, calls, pruned, panicked, registered>>

\* commands.entity(e).despawn() in a system
DespawnCommand(e) ==
    /\ ~panicked
    /\ InStage("Update")
    /\ Len(queue) < MaxQueue
    /\ e \in alive
    /\ queue' = Append(queue, [cmd |-> "Despawn", entity |-> e])
    /\ last' = [op |-> "system"]
    /\ UNCHANGED <<alive, subject, observer, lists, changed, stage, flushing, ran,
                   mutated, calls, pruned, panicked, registered, nops>>

\* the end of a stage applies its queued commands in order, each with
\* exclusive access to the world
ApplyCommand ==
    /\ ~panicked /\ stage > 0 /\ queue # <<>>
    /\ LET c == Head(queue) IN
       IF c.cmd = "Despawn"
       THEN /\ Commit(despawn(World, c.entity))
            /\ last' = [op |-> "despawn", entity |-> c.entity]
       ELSE /\ Commit(write(World, c.t, c.observer, c.subjects))
            /\ last' = [op |-> "write", t |-> c.t, observer |-> c.observer,
                        subjects |-> c.subjects, deferred |-> TRUE]
    /\ queue' = Tail(queue)
    /\ flushing' = TRUE
    /\ UNCHANGED <<stage, ran, mutated, registered, nops>>

\* recieve_subject_event::<T, S, O> runs once in its stage
Pass(t, subjOrder) ==
    /\ ~panicked
    /\ InStage(PassStage)
    /\ t \in registered \ ran
    /\ Commit(recieve_subject_event(World, t, subjOrder))
    /\ ran' = ran \cup {t}
    /\ last' = [op |-> "pass", t |-> t]
    /\ UNCHANGED <<queue, stage, flushing, mutated, registered, nops>>

\* the stage is over once its systems have run and its commands are applied
NextStage ==
    /\ ~panicked /\ stage > 0 /\ queue = <<>>
    /\ CoreStage[stage] = PassStage => ran = registered
    /\ stage' = IF stage = Len(CoreStage) THEN 0 ELSE stage + 1
    /\ flushing' = FALSE
    /\ last' = [op |-> "stage"]
    /\ UNCHANGED <<alive, subject, observer, lists, changed, queue, ran, mutated,
                   calls, pruned, panicked, registered, nops>>

Next ==
    \/ \E e \in Entity, v \in TestSubject : Mutate(e, v)
    \/ \E e \in Entity : Despawn(e)
    \/ \E t \in registered, obs \in Entity, sources \in SubjectVecs :
          SetObserverEntityMut(t, obs, sources)
    \/ \E t \in registered, e \in Entity, m \in EntityMaps : MapEntities(t, e, m)
    \/ AppUpdate
    \/ \E e \in Entity, v \in TestSubject : mutate_data(e, v)
    \/ \E t \in registered, obs \in Entity, sources \in SubjectVecs :
          SetObserverEntityCommands(t, obs, sources)
    \/ \E e \in Entity : DespawnCommand(e)
    \/ ApplyCommand
    \/ \E t \in registered, subjOrder \in Orders : Pass(t, subjOrder)
    \/ NextStage

Spec == Init /\ [][Next]_vars


\* A world for map_entities alone: every entity carries a TestSubject and no
\* TestObserver, so that set_observer calls build registries without a push;
\* one entity carries a registry, holding any set of entities such calls can
\* put there, and one operation is left.
InitRemap ==
    /\ registered \in {{t} : t \in Triples}
    /\ alive = Entity
    /\ subject = [e \in Entity |-> Some(Hello)]
    /\ observer = [e \in Entity |-> None]
    /\ \E t \in registered, g \in Entity, held \in SUBSET Entity :
          lists = [u \in Triples |-> [e \in Entity |->
                      IF u = t /\ e = g /\ held # {} THEN Some(SetToBag(held)) ELSE None]]
    /\ changed = [t \in Triples |-> Entity]
    /\ queue = <<>>
    /\ stage = 0
    /\ flushing = FALSE
    /\ ran = {}
    /\ mutated = {}
    /\ calls = <<>>
    /\ pruned = {}
    /\ last = [op |-> "init"]
    /\ panicked = FALSE
    /\ nops = MaxOps - 1

NextRemap == \E t \in registered, e \in Entity, m \in EntityMaps : MapEntities(t, e, m)

SpecRemap == InitRemap /\ [][NextRemap]_vars

\* The tests' world with both of the tests' triples registered in one App:
\* entity 1 is the subject g, every other entity an observer like r.
InitPair ==
    /\ registered = Triples
    /\ alive = Entity
    /\ subject = [e \in Entity |-> IF e = 1 THEN Some(Hello) ELSE None]
    /\ observer = [e \in Entity |-> IF e = 1 THEN None ELSE Some(TestObserverDefault)]
    /\ lists = [t \in Triples |-> [e \in Entity |-> None]]
    /\ changed = [t \in Triples |-> {e \in Entity : subject[e] # None}]
    /\ queue = <<>>
    /\ stage = 0
    /\ flushing = FALSE
    /\ ran = {}
    /\ mutated = {}
    /\ calls = <<>>
    /\ pruned = {}
    /\ last = [op |-> "init"]
    /\ panicked = FALSE
    /\ nops = 0

SpecPair == InitPair /\ [][Next]_vars

\* ======================================================== the claims
HasS(e) == e \in alive /\ subject[e] # None
HasO(e) == e \in alive /\ observer[e] # None

\* the entities a registry holds, and how often it holds one
Listed(ls, t, g) == IF ls[t][g] = None THEN {} ELSE BagToSet(Unwrap(ls[t][g]))
Copies(ls, t, g, r) == IF r \in Listed(ls, t, g) THEN CopiesIn(r, Unwrap(ls[t][g])) ELSE 0

\* the state of a TestObserver that has taken in the value of subject component sv
Holds(t, o, sv) ==
    IF t = "String" THEN o.a = {sv.a} ELSE o.a = {sv.a} /\ o.b = {sv.b}

\* this step is the pass of triple t; the subjects it processes
PassStep(t) == t \in ran' /\ t \notin ran
Processed(t) == {g \in Entity : HasS(g) /\ lists[t][g] # None /\ g \in changed[t]}

\* this step is a run of ObserverBuildCommand::write (at once or deferred)
WriteStep == last'.op = "write"

\* the receive_data calls this step has made
NewCalls == IF stage = 0 THEN calls' ELSE SubSeq(calls', Len(calls) + 1, Len(calls'))

\* how many of the calls in cs were made by `by` for subject g on observer r
Count(cs, by, t, g, r) ==
    Cardinality({i \in 1..Len(cs) : /\ cs[i].by = by /\ cs[i].t = t
                                    /\ cs[i].sender = g /\ cs[i].observer = r})

\* a call in cs made by `by` for subject g on observer r with the value of sv
Delivered(cs, by, t, g, r, sv) ==
    \E i \in 1..Len(cs) : /\ cs[i].by = by /\ cs[i].t = t /\ cs[i].sender = g
                          /\ cs[i].observer = r
                          /\ cs[i].data = (IF t = "String" THEN sv.a ELSE sv)

\* C1: a pass delivers, for every subject whose S changed since the triple's
\* previous pass, the subject's current value to every entity of its registry
\* that has a live O; an observer that only this subject reaches in the pass
\* holds the value afterwards.
C1_ChangePropagation ==
    [][\A t \in registered : PassStep(t) =>
         \A g \in Entity : (HasS(g) /\ g \in changed[t]) =>
            \A r \in Listed(lists, t, g) : HasO(r) =>
               /\ Delivered(NewCalls, "pass", t, g, r, Unwrap(subject[g]))
               /\ (\A g2 \in Processed(t) : r \in Listed(lists, t, g2) => g2 = g)
                     => Holds(t, Unwrap(observer'[r]), Unwrap(subject[g]))]_vars

\* a pass has delivered a mutated subject's new value, which the observer holds
C1_Witness ==
    /\ last.op = "pass"
    /\ \E i \in 1..Len(calls) :
          /\ calls[i].by = "pass"
          /\ calls[i].data = give_data(calls[i].t, Farewell)
          /\ subject[calls[i].sender] = Some(Farewell)
          /\ Holds(calls[i].t, Unwrap(observer[calls[i].observer]), Farewell)

\* C2: when write completes for an observer with a live O, the observer has
\* taken in the current value of every listed subject that has a live S, and
\* holds it when the command lists one subject; no pass is needed for that.
C2_Bootstrap ==
    [][(WriteStep /\ ~panicked' /\ HasO(last'.observer)) =>
         \A i \in 1..Len(last'.subjects) :
            LET g == last'.subjects[i] IN
            HasS(g) =>
               /\ Delivered(NewCalls, "write", last'.t, g, last'.observer, Unwrap(subject[g]))
               /\ (\A j \in 1..Len(last'.subjects) : last'.subjects[j] = g)
                     => Holds(last'.t, Unwrap(observer'[last'.observer]), Unwrap(subject[g]))]_vars

\* set_observer on an EntityMut has pushed a subject's value before any tick
C2_Witness ==
    /\ last.op = "write" /\ ~last.deferred
    /\ stage = 0 /\ ran = {} /\ ~panicked
    /\ Len(last.subjects) = 1
    /\ HasS(last.subjects[1]) /\ HasO(last.observer)
    /\ Len(calls) = 1
    /\ Holds(last.t, Unwrap(observer[last.observer]), Unwrap(subject[last.subjects[1]]))

\* right after app.update() returns
TickDone == stage = 0 /\ last.op = "stage"

\* C3: when app.update() returns, every subject a system of that tick mutated
\* has been seen by the pass of that tick, which delivered its value to the
\* entities of its registry that have a live O.
C3_SameTick ==
    TickDone =>
       \A t \in registered : \A g \in mutated : HasS(g) =>
          /\ g \notin changed[t]
          /\ \A r \in Listed(lists, t, g) : HasO(r) =>
                Delivered(calls, "pass", t, g, r, Unwrap(subject[g]))

\* one app.update() in which a system mutated a subject and the pass delivered
C3_Witness ==
    /\ TickDone
    /\ \E i \in 1..Len(calls) :
          /\ calls[i].by = "pass"
          /\ calls[i].sender \in mutated
          /\ calls[i].data = give_data(calls[i].t, Farewell)
          /\ Holds(calls[i].t, Unwrap(observer[calls[i].observer]), Farewell)

\* C4: a registry never holds an entity more than once, however often it was
\* registered, and a pass calls receive_data at most once per subject and
\* observer: once when the subject is processed and the observer has a live O.
C4_Idempotent ==
    [][/\ \A t \in Triples, g, r \in Entity : Copies(lists', t, g, r) <= 1
       /\ \A t \in registered : PassStep(t) =>
             \A g, r \in Entity :
                Count(NewCalls, "pass", t, g, r) =
                   (IF g \in Processed(t) /\ r \in Listed(lists, t, g) /\ HasO(r)
                    THEN 1 ELSE 0)]_vars

\* an observer registered twice against a subject in one tick (two pushes),
\* held once, and called once by the pass of that tick
C4_Witness ==
    \E t \in registered, g, r \in Entity :
       /\ Count(calls, "write", t, g, r) >= 2
       /\ Count(calls, "pass", t, g, r) = 1
       /\ Copies(lists, t, g, r) = 1

\* C5: a pass that processes a subject leaves no destroyed entity in its registry.
C5_GarbageCollection ==
    [][\A t \in registered : PassStep(t) =>
         \A g \in Processed(t) : \A r \in Listed(lists, t, g) :
            r \notin alive => r \notin Listed(lists', t, g)]_vars

\* a pass has removed a destroyed observer from a registry
C5_Witness ==
    /\ last.op = "pass"
    /\ \E p \in pruned :
          /\ p.observer \notin alive
          /\ lists[p.t][p.subject] # None
          /\ p.observer \notin Listed(lists, p.t, p.subject)

\* C6: a pass never panics, and stale entries in a registry do not keep it
\* from delivering to the entities of that registry that have a live O.
C6_DispatchNeverFails ==
    [][\A t \in registered : PassStep(t) =>
         /\ ~panicked'
         /\ \A g \in Processed(t) :
               (\E r \in Listed(lists, t, g) : ~HasO(r)) =>
                  \A r \in Listed(lists, t, g) : HasO(r) =>
                     Count(NewCalls, "pass", t, g, r) >= 1]_vars

\* one pass over a registry that held a destroyed entity and a live observer:
\* the first is removed, the second was delivered to
C6_Witness ==
    /\ last.op = "pass" /\ ~panicked
    /\ \E p \in pruned : \E i \in 1..Len(calls) :
          /\ calls[i].by = "pass"
          /\ calls[i].t = p.t
          /\ calls[i].sender = p.subject
          /\ calls[i].observer \in Listed(lists, p.t, p.subject)
          /\ p.observer \notin alive

\* the map handed to the last map_entities lacked an identifier the registry held
RemapLacks == last.op = "map_entities" /\ DOMAIN last.m # Elements(last.before)

\* C7: map_entities with a map that lacks a held identifier returns an Err to
\* its caller and leaves the registry as it was.
C7_RemapFailureReported ==
    RemapLacks =>
       /\ last.result = "Err"
       /\ ~panicked
       /\ lists[last.t][last.entity] = Some(last.before)

\* C8: map_entities with a map that has every held identifier returns Ok and
\* leaves exactly the images of the held identifiers, each once.
C8_RemapSuccess ==
    (last.op = "map_entities" /\ ~RemapLacks) =>
       /\ last.result = "Ok"
       /\ ~panicked
       /\ Listed(lists, last.t, last.entity) = {last.m[x] : x \in Elements(last.before)}
       /\ \A r \in Entity : Copies(lists, last.t, last.entity, r) <= 1

\* a remap that took two held identifiers to one, which was not held before
C8_Witness ==
    /\ last.op = "map_entities" /\ ~RemapLacks
    /\ Cardinality(Elements(last.before)) = 2
    /\ Cardinality(Listed(lists, last.t, last.entity)) = 1
    /\ Listed(lists, last.t, last.entity) \cap Elements(last.before) = {}

\* C9 as stated: a pass that processes a subject leaves in its registry no
\* entity without a live O, destroyed or not.
C9_PrunesEveryObserverWithoutO ==
    [][\A t \in registered : PassStep(t) =>
         \A g \in Processed(t) : \A r \in Listed(lists, t, g) :
            ~HasO(r) => r \notin Listed(lists', t, g)]_vars

\* C9, amended: a pass that processes a subject removes from its registry the
\* entities that no longer exist, and only those: an entity that is alive
\* stays, with or without an O.
C9_PrunesDestroyedOnly ==
    [][\A t \in registered : PassStep(t) =>
         \A g \in Processed(t) :
            Listed(lists', t, g) = Listed(lists, t, g) \cap alive]_vars

\* a pass has processed a subject (it removed a destroyed entity from its
\* registry) and a live entity without O is still in that registry
C9_Witness ==
    /\ last.op = "pass"
    /\ \E p \in pruned : \E r \in Listed(lists, p.t, p.subject) :
          r \in alive /\ observer[r] = None

\* every listed subject exists when write runs
SubjectsExist == \A i \in 1..Len(last'.subjects) : last'.subjects[i] \in alive

\* C10: write, applied with subjects that exist, does not panic, puts the
\* observer in the registry of every listed subject (a new registry holds
\* just the observer), and makes no receive_data call for an observer without
\* O nor for a subject without S.
C10_MissingComponentsSkipped ==
    [][(WriteStep /\ SubjectsExist) =>
         LET t == last'.t
             obs == last'.observer
         IN /\ ~panicked'
            /\ \A i \in 1..Len(last'.subjects) :
                  LET g == last'.subjects[i] IN
                  /\ Copies(lists', t, g, obs) = 1
                  /\ lists[t][g] = None => Listed(lists', t, g) = {obs}
                  /\ ~HasS(g) => \A r \in Entity : Count(NewCalls, "write", t, g, r) = 0
            /\ ~HasO(obs) => NewCalls = <<>>]_vars

\* write ran for an observer without O and subjects of which one has S and one
\* has not: no call was made, and both registries hold the observer
C10_Witness ==
    /\ last.op = "write" /\ ~panicked
    /\ stage = 0 /\ calls = <<>>
    /\ last.observer \in alive /\ observer[last.observer] = None
    /\ Len(last.subjects) = 2
    /\ HasS(last.subjects[1]) /\ ~HasS(last.subjects[2])
    /\ \A i \in 1..2 : Listed(lists, last.t, last.subjects[i]) = {last.observer}

\* C11: a pass calls receive_data only on behalf of subjects whose S changed
\* since the triple's previous pass, and when it returns no change is left for
\* the triple's next pass: a change is delivered by one pass, and a pass with
\* no change before it delivers nothing.
C11_NoDeliveryWithoutChange ==
    [][\A t \in registered : PassStep(t) =>
         /\ \A i \in 1..Len(NewCalls) :
               /\ NewCalls[i].by = "pass" /\ NewCalls[i].t = t
               /\ HasS(NewCalls[i].sender)
               /\ NewCalls[i].sender \in changed[t]
         /\ changed'[t] = {}
         /\ changed[t] = {} => NewCalls = <<>>]_vars

\* a tick's pass has run over a subject that has a registered observer with a
\* live O and made no call: the subject had not changed since the pass before
C11_Witness ==
    /\ last.op = "pass" /\ calls = <<>>
    /\ \E g, r \in Entity :
          /\ HasS(g) /\ HasO(r)
          /\ r \in Listed(lists, last.t, g)

\* the receive_data calls of this step all belong to triple t
CallsOf(t) == \A i \in 1..Len(NewCalls) : NewCalls[i].t = t

\* C12: write and the pass of one triple leave the registries of every other
\* triple as they were (the pass also the other triple's pending changes) and
\* call only that triple's receive_data; a step whose calls are all of the
\* (String, TestSubject, TestObserver) triple leaves field b of every
\* TestObserver as it was.
C12_TriplesDoNotInteract ==
    [][/\ WriteStep =>
            /\ CallsOf(last'.t)
            /\ \A u \in Triples \ {last'.t} : lists'[u] = lists[u]
       /\ \A t \in registered : PassStep(t) =>
            /\ CallsOf(t)
            /\ \A u \in Triples \ {t} : lists'[u] = lists[u] /\ changed'[u] = changed[u]
       /\ CallsOf("String") =>
            \A e \in Entity : (observer[e] # None /\ observer'[e] # None) =>
               Unwrap(observer'[e]).b = Unwrap(observer[e]).b]_vars

\* both passes of a tick have run with both triples registered; an observer
\* linked to a mutated subject under the String triple alone holds the
\* subject's new a and no b
C12_Witness ==
    /\ TickDone /\ registered = Triples /\ ran = Triples
    /\ \E g, r \in Entity :
          /\ subject[g] = Some(Farewell) /\ HasO(r)
          /\ r \in Listed(lists, "String", g)
          /\ lists["Self"][g] = None
          /\ Delivered(calls, "pass", "String", g, r, Farewell)
          /\ Unwrap(observer[r]) = [a |-> Some("Farewell World!"), b |-> None]

\* C13: write never aborts, whatever the world is like when it is applied;
\* only map_entities can fail.
C13_OnlyRemapFails ==
    panicked => last.op = "map_entities"

\* this step is a call of set_observer that queues its command
QueueStep ==
    /\ Len(queue') = Len(queue) + 1
    /\ queue'[Len(queue')].cmd = "ObserverBuildCommand"

\* C14 as stated: a call of set_observer, through EntityCommands or through
\* EntityMut, changes no registry and no observer component and calls no
\* receive_data.
C14_DeferredEveryEntryPoint ==
    [][(QueueStep \/ (WriteStep /\ ~last'.deferred)) =>
          /\ lists' = lists
          /\ observer' = observer
          /\ NewCalls = <<>>]_vars

\* C14, amended: a call of set_observer through EntityCommands only queues the
\* command: no step of a system changes a registry or an observer component or
\* calls receive_data, and the command is written when it is the head of the
\* queue that the end of the stage applies. Through EntityMut the command is
\* written by the call itself.
C14_DeferredForEntityCommands ==
    [][/\ QueueStep => (queue' = Append(queue, queue'[Len(queue')]) /\ stage' = stage)
       /\ (QueueStep \/ last'.op = "system") =>
             /\ lists' = lists
             /\ observer' = observer
             /\ calls' = calls
       /\ (WriteStep /\ last'.deferred) =>
             /\ stage > 0 /\ flushing' /\ queue # <<>>
             /\ Head(queue) = [cmd |-> "ObserverBuildCommand", t |-> last'.t,
                               observer |-> last'.observer, subjects |-> last'.subjects]
             /\ queue' = Tail(queue)
       /\ (WriteStep /\ ~last'.deferred) => (stage = 0 /\ queue' = queue)]_vars

\* a system has called set_observer for an observer with O and a subject with
\* S: the command waits in the queue, no registry holds the observer and no
\* call was made
C14_Witness ==
    /\ stage > 0 /\ ~flushing /\ calls = <<>>
    /\ \E i \in 1..Len(queue) :
          /\ queue[i].cmd = "ObserverBuildCommand"
          /\ HasO(queue[i].observer)
          /\ \E j \in 1..Len(queue[i].subjects) : HasS(queue[i].subjects[j])
          /\ \A g \in Entity : queue[i].observer \notin Listed(lists, queue[i].t, g)

\* C15: destroying an entity changes no registry but its own, which goes with
\* it; a destroyed entity stays in every registry that holds it through every
\* step but the pass that processes the registry's subject (and a remap or
\* the destruction of that subject).
C15_LazyPruning ==
    [][/\ alive' # alive =>
            \A t \in Triples : \A g \in alive' : lists'[t][g] = lists[t][g]
       /\ \A t \in Triples : \A g \in alive' : \A r \in Listed(lists, t, g) :
            (/\ r \notin alive'
             /\ ~(PassStep(t) /\ g \in Processed(t))
             /\ last'.op # "map_entities") => r \in Listed(lists', t, g)]_vars

\* a whole tick has run, its pass included, and the registry of a subject
\* that did not change still holds a destroyed entity
C15_Witness ==
    /\ TickDone
    /\ \E t \in ran : \E g, r \in Entity :
          /\ HasS(g)
          /\ r \notin alive
          /\ r \in Listed(lists, t, g)

\* the sender of the last call in cs made to observer r
LastSender(cs, r) ==
    LET is == {i \in 1..Len(cs) : cs[i].observer = r}
    IN cs[CHOOSE i \in is : \A j \in is : j <= i].sender

\* C16: when a pass processes two subjects whose registries both hold an
\* observer with a live O, it delivers the value of each to the observer,
\* which then holds the value of the subject delivered last, one of the
\* subjects the pass processed.
C16_ConflictingSubjects ==
    [][\A t \in registered : PassStep(t) =>
         \A g1, g2 \in Processed(t) : \A r \in Listed(lists, t, g1) \cap Listed(lists, t, g2) :
            (g1 # g2 /\ HasO(r)) =>
               /\ Delivered(NewCalls, "pass", t, g1, r, Unwrap(subject[g1]))
               /\ Delivered(NewCalls, "pass", t, g2, r, Unwrap(subject[g2]))
               /\ LastSender(NewCalls, r) \in Processed(t)
               /\ r \in Listed(lists, t, LastSender(NewCalls, r))
               /\ Holds(t, Unwrap(observer'[r]),
                        Unwrap(subject[LastSender(NewCalls, r)]))]_vars

\* a pass delivered the differing values of two subjects to one observer, the
\* subject with the smaller identifier last: the observer holds its value
C16_Witness ==
    /\ last.op = "pass"
    /\ \E g1, g2, r \in Entity :
          /\ g1 < g2 /\ HasS(g1) /\ HasS(g2) /\ HasO(r)
          /\ subject[g1] # subject[g2]
          /\ Count(calls, "pass", last.t, g1, r) = 1
          /\ Count(calls, "pass", last.t, g2, r) = 1
          /\ LastSender(calls, r) = g1
          /\ Holds(last.t, Unwrap(observer[r]), Unwrap(subject[g1]))
          /\ ~Holds(last.t, Unwrap(observer[r]), Unwrap(subject[g2]))

\* C17: a pass adds no entry to a registry, removes no entity that is alive
\* with a live O, and leaves the registry of a subject it does not process as
\* it was; write removes no entry and changes the registries of the subjects
\* it lists only.
C17_MembershipFrame ==
    [][/\ \A t \in registered : PassStep(t) =>
            \A g \in Entity :
               /\ Listed(lists', t, g) \subseteq Listed(lists, t, g)
               /\ \A r \in Listed(lists, t, g) : HasO(r) => r \in Listed(lists', t, g)
               /\ g \notin Processed(t) => lists'[t][g] = lists[t][g]
       /\ WriteStep =>
            \A t \in Triples : \A g \in Entity :
               /\ Listed(lists, t, g) \subseteq Listed(lists', t, g)
               /\ (\A i \in 1..Len(last'.subjects) : last'.subjects[i] # g)
                     => lists'[t][g] = lists[t][g]]_vars

\* write has added an observer to a registry that held another entity, and
\* left the registry of a subject it did not list alone
C17_Witness ==
    /\ last.op = "write" /\ ~panicked
    /\ \E g \in Entity : \E r \in Listed(lists, last.t, g) :
          /\ \E i \in 1..Len(last.subjects) : last.subjects[i] = g
          /\ r # last.observer
          /\ last.observer \in Listed(lists, last.t, g)

\* the listed subjects that have a live S, in the order of the list
Pushed(subjects) == SelectSeq(subjects, LAMBDA g : HasS(g))

\* C18: the calls write makes for an observer with a live O are one per
\* listed subject with a live S, in the order of the list, each with that
\* subject's value; the observer then holds the value of the last of them.
C18_BootstrapOrder ==
    [][(WriteStep /\ ~panicked' /\ HasO(last'.observer)) =>
         LET t == last'.t
             obs == last'.observer
             pushed == Pushed(last'.subjects)
         IN /\ NewCalls = [i \in 1..Len(pushed) |->
                             [by |-> "write", t |-> t, sender |-> pushed[i],
                              observer |-> obs,
                              data |-> give_data(t, Unwrap(subject[pushed[i]]))]]
            /\ pushed # <<>> =>
                  Holds(t, Unwrap(observer'[obs]),
                        Unwrap(subject[pushed[Len(pushed)]]))]_vars

\* write ran for two subjects with different values: two calls in the order
\* of the list, and the observer holds the second subject's value
C18_Witness ==
    /\ last.op = "write" /\ ~panicked /\ stage = 0
    /\ Len(last.subjects) = 2 /\ Len(calls) = 2
    /\ HasO(last.observer)
    /\ subject[last.subjects[1]] # subject[last.subjects[2]]
    /\ calls[1].sender = last.subjects[1] /\ calls[2].sender = last.subjects[2]
    /\ Holds(last.t, Unwrap(observer[last.observer]), Unwrap(subject[last.subjects[2]]))
    /\ ~Holds(last.t, Unwrap(observer[last.observer]), Unwrap(subject[last.subjects[1]]))

====
